---- MODULE Spec2Model ----
(***************************************************************************)
(* scripts/all_tuples.py: the generator of the all_the_tuples macro.       *)
(*                                                                         *)
(* Text is modelled as a sequence of one-character strings, so that        *)
(* formatting, joining and parsing are computed character by character.    *)
(* Every process of the program (one run of main) is an index c of the     *)
(* per-process variables; Spec runs one process, SpecTwo runs two          *)
(* processes side by side on the same command line, SpecName applies       *)
(* name() to prefixes and positions drawn from bounded sets.               *)
(***************************************************************************)
EXTENDS Integers, Sequences, FiniteSets, TLC

(* Largest N for which the document is generated; a command line whose    *)
(* argument parses to more is not explored.                                *)
MaxN == 12

(* Longest command-line argument explored.                                 *)
MaxArgLen == 2

(* Longest prefix and largest position handed to name() in SpecName.       *)
MaxPrefixLen == 2

MaxPos == 12

VARIABLES
    argv,        \* the command-line arguments, sys.argv[1:]
    pc,          \* pc[c]: where process c stands in main / generate_macro
    n,           \* n[c]: main's n, generate_macro's max_n
    i,           \* i[c]: the loop variable of generate_macro
    lines,       \* lines[c]: generate_macro's list of lines
    macro_code,  \* macro_code[c]: the string generate_macro returned
    stdout,      \* stdout[c]: the characters printed so far
    exitcode,    \* exitcode[c]: -1 while running, then the exit status
    calls,       \* calls[c]: the calls made so far, with what they returned
    frame        \* SpecName: the arguments and the result of a call of name()

vars == <<argv, pc, n, i, lines, macro_code, stdout, exitcode, calls, frame>>

Procs == DOMAIN pc

----------------------------------------------------------------------------
(* Characters and the Python built-ins the script uses.                    *)

NL == "\n"

Digits == <<"0", "1", "2", "3", "4", "5", "6", "7", "8", "9">>

IsDigit(ch) == \E d \in 1..10 : Digits[d] = ch

DigitValue(ch) == (CHOOSE d \in 1..10 : Digits[d] = ch) - 1

(* str(k) for an int k >= 0: the decimal digits, most significant first.   *)
RECURSIVE str(_)
str(k) == IF k < 10 THEN <<Digits[k + 1]>>
          ELSE str(k \div 10) \o <<Digits[(k % 10) + 1]>>

RECURSIVE Spaces(_)
Spaces(k) == IF k <= 0 THEN <<>> ELSE <<" ">> \o Spaces(k - 1)

(* sep.join(parts)                                                         *)
RECURSIVE join(_, _)
join(sep, parts) ==
    IF Len(parts) = 0 THEN <<>>
    ELSE IF Len(parts) = 1 THEN parts[1]
    ELSE parts[1] \o sep \o join(sep, Tail(parts))

(* range(a, b) as the sequence a, a+1, ..., b-1                            *)
range(a, b) == [k \in 1..(IF b > a THEN b - a ELSE 0) |-> a + k - 1]

(* int(s) strips surrounding whitespace, takes an optional sign, then      *)
(* decimal digits in which single underscores may separate digits.         *)
RECURSIVE lstrip(_)
lstrip(s) == IF Len(s) > 0 /\ s[1] = " " THEN lstrip(Tail(s)) ELSE s

RECURSIVE rstrip(_)
rstrip(s) == IF Len(s) > 0 /\ s[Len(s)] = " "
             THEN rstrip(SubSeq(s, 1, Len(s) - 1)) ELSE s

strip(s) == rstrip(lstrip(s))

HasSign(s) == Len(s) > 0 /\ s[1] \in {"+", "-"}

Unsigned(s) == IF HasSign(s) THEN Tail(s) ELSE s

IsDigitString(d) ==
    /\ Len(d) > 0
    /\ IsDigit(d[1])
    /\ IsDigit(d[Len(d)])
    /\ \A k \in 1..Len(d) : IsDigit(d[k]) \/ d[k] = "_"
    /\ \A k \in 1..(Len(d) - 1) : ~(d[k] = "_" /\ d[k + 1] = "_")

RECURSIVE DigitsValue(_)
DigitsValue(d) ==
    IF Len(d) = 0 THEN 0
    ELSE IF d[Len(d)] = "_" THEN DigitsValue(SubSeq(d, 1, Len(d) - 1))
    ELSE 10 * DigitsValue(SubSeq(d, 1, Len(d) - 1)) + DigitValue(d[Len(d)])

(* Whether int(s) returns, and what it returns.                            *)
int_ok(s) == IsDigitString(Unsigned(strip(s)))

int(s) == IF strip(s)[1] = "-" THEN 0 - DigitsValue(Unsigned(strip(s)))
          ELSE DigitsValue(Unsigned(strip(s)))

(* repr(s) of a str without quote characters: the text between single      *)
(* quotes, a backslash doubled.                                            *)
RECURSIVE escape(_)
escape(s) == IF Len(s) = 0 THEN <<>>
             ELSE (IF s[1] = "\\" THEN <<"\\", "\\">> ELSE <<s[1]>>)
                  \o escape(Tail(s))

repr(s) == <<"'">> \o escape(s) \o <<"'">>

InvalidLiteral ==
    <<"i", "n", "v", "a", "l", "i", "d", " ", "l", "i", "t", "e", "r", "a",
      "l", " ", "f", "o", "r", " ", "i", "n", "t", "(", ")", " ", "w", "i",
      "t", "h", " ", "b", "a", "s", "e", " ", "1", "0", ":", " ">>

(* str(e) of the ValueError that int(s) raises on a text it cannot parse.   *)
int_error(s) == InvalidLiteral \o repr(s)

----------------------------------------------------------------------------
(* The fixed text of the script.                                           *)

DocCommentLine ==
    <<"/", "/", "/", " ", "C", "a", "l", "l", "s", " ", "t", "h", "e", " ",
      "g", "i", "v", "e", "n", " ", "m", "a", "c", "r", "o", " ", "w", "i",
      "t", "h", " ", "a", "l", "l", " ", "t", "h", "e", " ", "t", "u", "p",
      "l", "e", "s", ".">>

RustfmtSkipLine ==
    <<"#", "[", "r", "u", "s", "t", "f", "m", "t", ":", ":", "s", "k", "i",
      "p", "]">>

MacroRulesLine ==
    <<"m", "a", "c", "r", "o", "_", "r", "u", "l", "e", "s", "!", " ", "a",
      "l", "l", "_", "t", "h", "e", "_", "t", "u", "p", "l", "e", "s", " ",
      "{">>

DoubleOpenLine ==
    <<" ", " ", " ", " ", "(", "@", "d", "o", "u", "b", "l", "e", " ", "$",
      "m", "a", "c", ":", "p", "a", "t", "h", ")", " ", "=", ">", " ", "{">>

ArmCloseLine ==
    <<" ", " ", " ", " ", "}", ";">>

SingleOpenLine ==
    <<" ", " ", " ", " ", "(", "$", "m", "a", "c", ":", "p", "a", "t", "h",
      ")", " ", "=", ">", " ", "{">>

MacroCloseLine ==
    <<"}">>

LineOpen ==
    <<" ", " ", " ", " ", " ", " ", " ", " ", "{", " ">>

LineClose ==
    <<" ", "}">>

UsageLine ==
    <<"U", "s", "a", "g", "e", ":", " ", "p", "y", "t", "h", "o", "n", " ",
      "a", "l", "l", "_", "t", "u", "p", "l", "e", "s", ".", "p", "y", " ",
      "<", "N", ">">>

ExampleLine ==
    <<"E", "x", "a", "m", "p", "l", "e", ":", " ", "p", "y", "t", "h", "o",
      "n", " ", "a", "l", "l", "_", "t", "u", "p", "l", "e", "s", ".", "p",
      "y", " ", "6", "0">>

ErrorPrefix ==
    <<"E", "r", "r", "o", "r", ":", " ">>

MustBePositive ==
    <<"N", " ", "m", "u", "s", "t", " ", "b", "e", " ", "p", "o", "s", "i",
      "t", "i", "v", "e">>

MustBePositiveInteger ==
    <<"N", " ", "m", "u", "s", "t", " ", "b", "e", " ", "a", " ", "p", "o",
      "s", "i", "t", "i", "v", "e", " ", "i", "n", "t", "e", "g", "e", "r">>

----------------------------------------------------------------------------
(* The functions of the script.                                            *)

(* Mutant of name: the first name is suffixed too ("T1").                  *)
name_suffix_all(prefix, pos) == prefix \o str(pos + 1)

(* Mutant of name: the position is not made 1-based before it is printed.  *)
name_no_increment(prefix, pos) ==
    IF pos = 0 THEN prefix
    ELSE prefix \o str(pos)

(* def name(prefix, i)                                                     *)
name(prefix, pos) ==
    IF pos = 0 THEN prefix
    ELSE prefix \o str(pos + 1)

(* Mutant of paired_item: the two families change places.                  *)
paired_item_swapped(pos) ==
    <<"(">> \o name(<<"U">>, pos) \o <<" ">> \o name(<<"T">>, pos) \o <<")">>

(* The element generate_tuple_list yields for position pos.                *)
paired_item(pos) ==
    <<"(">> \o name(<<"T">>, pos) \o <<" ">> \o name(<<"U">>, pos) \o <<")">>

single_item(pos) == name(<<"T">>, pos)

(* def generate_tuple_list(n, double=False)                                *)
generate_tuple_list(arity, double) ==
    IF double
    THEN join(<<",", " ">>, [k \in 1..Len(range(0, arity)) |->
                                paired_item(range(0, arity)[k])])
    ELSE join(<<",", " ">>, [k \in 1..Len(range(0, arity)) |->
                                single_item(range(0, arity)[k])])

(* Mutant of format2: the arity is printed without padding.               *)
format_unpadded(k) == str(k)

(* format(k, "2"): the format spec of {i:2}. An int is right-aligned in a  *)
(* field of at least two characters, padded with spaces, never truncated.  *)
format2(k) == Spaces(2 - Len(str(k))) \o str(k)

(* f"        {{ {i:2} {tuple_list} }}"                                     *)
pattern_line(arity, tuple_list) ==
    LineOpen \o format2(arity) \o <<" ">> \o tuple_list \o LineClose

(* The list generate_macro starts from.                                    *)
header_lines ==
    <<DocCommentLine, RustfmtSkipLine, MacroRulesLine, DoubleOpenLine>>

(* What is appended between the two loops, and after the second.           *)
separator_lines == <<ArmCloseLine, <<>>, SingleOpenLine>>

(* Mutant of footer_lines: the final empty line is not appended.           *)
footer_lines_no_blank == <<ArmCloseLine, MacroCloseLine>>

footer_lines == <<ArmCloseLine, MacroCloseLine, <<>>>>

(* Mutant of loop_continues: range(1, max_n), one arity short.             *)
loop_stops_early(k, max_n) == k < max_n

(* Mutant of loop_continues: range(1, max_n + 2), one arity too many.      *)
loop_overruns(k, max_n) == k < max_n + 2

(* k is still in range(1, max_n + 1)                                       *)
loop_continues(k, max_n) == k < max_n + 1

(* sys.argv: the program's name, then the arguments.                       *)
sys_argv == <<<<"a", "l", "l", "_", "t", "u", "p", "l", "e", "s", ".", "p",
               "y">>>> \o argv

(* len(sys.argv) != 2                                                      *)
wrong_argc == Len(sys_argv) # 2

(* Mutant of not_positive: zero passes the validation.                     *)
not_positive_strict(k) == k < 0

(* n <= 0                                                                  *)
not_positive(k) == k <= 0

(* Mutant of error_line: the exception's text is left out.                 *)
error_line_bare(e) == ErrorPrefix

(* f"Error: {e}"                                                           *)
error_line(e) == ErrorPrefix \o e

(* print(s): the text and a newline go to standard output.                 *)
print(out, s) == out \o s \o <<NL>>

Call(fn, args, ret) == [fn |-> fn, args |-> args, ret |-> ret]

----------------------------------------------------------------------------
(* main, step by step, for process c.                                      *)

(* if len(sys.argv) != 2: usage, sys.exit(1)                               *)
main_usage(c) ==
    /\ pc[c] = "main"
    /\ wrong_argc
    /\ stdout' = [stdout EXCEPT ![c] = print(print(@, UsageLine), ExampleLine)]
    /\ exitcode' = [exitcode EXCEPT ![c] = 1]
    /\ pc' = [pc EXCEPT ![c] = "exit"]
    /\ UNCHANGED <<argv, n, i, lines, macro_code, calls, frame>>

main_argc_ok(c) ==
    /\ pc[c] = "main"
    /\ ~wrong_argc
    /\ pc' = [pc EXCEPT ![c] = "parse"]
    /\ UNCHANGED <<argv, n, i, lines, macro_code, stdout, exitcode, calls,
                   frame>>

(* n = int(sys.argv[1]) raises ValueError                                  *)
main_parse_error(c) ==
    /\ pc[c] = "parse"
    /\ ~int_ok(sys_argv[2])
    /\ stdout' = [stdout EXCEPT ![c] =
                     print(print(@, error_line(int_error(sys_argv[2]))),
                           MustBePositiveInteger)]
    /\ exitcode' = [exitcode EXCEPT ![c] = 1]
    /\ pc' = [pc EXCEPT ![c] = "exit"]
    /\ UNCHANGED <<argv, n, i, lines, macro_code, calls, frame>>

(* if n <= 0: raise ValueError("N must be positive")                       *)
main_not_positive(c) ==
    /\ pc[c] = "parse"
    /\ int_ok(sys_argv[2])
    /\ not_positive(int(sys_argv[2]))
    /\ n' = [n EXCEPT ![c] = int(sys_argv[2])]
    /\ stdout' = [stdout EXCEPT ![c] =
                     print(print(@, error_line(MustBePositive)),
                           MustBePositiveInteger)]
    /\ exitcode' = [exitcode EXCEPT ![c] = 1]
    /\ pc' = [pc EXCEPT ![c] = "exit"]
    /\ UNCHANGED <<argv, i, lines, macro_code, calls, frame>>

main_parsed(c) ==
    /\ pc[c] = "parse"
    /\ int_ok(sys_argv[2])
    /\ ~not_positive(int(sys_argv[2]))
    /\ n' = [n EXCEPT ![c] = int(sys_argv[2])]
    /\ pc' = [pc EXCEPT ![c] = "call_generate_macro"]
    /\ UNCHANGED <<argv, i, lines, macro_code, stdout, exitcode, calls, frame>>

(* Mutant of generate_macro_begin: the first lines are taken out of an     *)
(* unordered container, so their order differs from run to run.            *)
generate_macro_begin_unordered(c) ==
    /\ pc[c] = "call_generate_macro"
    /\ calls' = [calls EXCEPT ![c] =
                    Append(@, Call("generate_macro", <<n[c]>>, <<>>))]
    /\ \E first \in {DocCommentLine, RustfmtSkipLine} :
          \E second \in {DocCommentLine, RustfmtSkipLine} \ {first} :
             lines' = [lines EXCEPT ![c] =
                          <<first, second, MacroRulesLine, DoubleOpenLine>>]
    /\ i' = [i EXCEPT ![c] = 1]
    /\ pc' = [pc EXCEPT ![c] = "double_loop"]
    /\ UNCHANGED <<argv, n, macro_code, stdout, exitcode, frame>>

(* macro_code = generate_macro(n): the call, and the initial list          *)
generate_macro_begin(c) ==
    /\ pc[c] = "call_generate_macro"
    /\ calls' = [calls EXCEPT ![c] =
                    Append(@, Call("generate_macro", <<n[c]>>, <<>>))]
    /\ lines' = [lines EXCEPT ![c] = header_lines]
    /\ i' = [i EXCEPT ![c] = 1]
    /\ pc' = [pc EXCEPT ![c] = "double_loop"]
    /\ UNCHANGED <<argv, n, macro_code, stdout, exitcode, frame>>

(* One iteration of: for i in range(1, max_n + 1), @double variant         *)
double_iteration(c) ==
    /\ pc[c] = "double_loop"
    /\ loop_continues(i[c], n[c])
    /\ LET tuple_list == generate_tuple_list(i[c], TRUE)
       IN /\ calls' = [calls EXCEPT ![c] =
                 Append(@, Call("generate_tuple_list", <<i[c], TRUE>>,
                                tuple_list))]
          /\ lines' = [lines EXCEPT ![c] =
                 Append(@, pattern_line(i[c], tuple_list))]
    /\ i' = [i EXCEPT ![c] = @ + 1]
    /\ UNCHANGED <<argv, pc, n, macro_code, stdout, exitcode, frame>>

(* The loop is exhausted: "    };", "", "    ($mac:path) => {"             *)
double_done(c) ==
    /\ pc[c] = "double_loop"
    /\ ~loop_continues(i[c], n[c])
    /\ lines' = [lines EXCEPT ![c] = @ \o separator_lines]
    /\ i' = [i EXCEPT ![c] = 1]
    /\ pc' = [pc EXCEPT ![c] = "single_loop"]
    /\ UNCHANGED <<argv, n, macro_code, stdout, exitcode, calls, frame>>

(* One iteration of: for i in range(1, max_n + 1), single variant          *)
single_iteration(c) ==
    /\ pc[c] = "single_loop"
    /\ loop_continues(i[c], n[c])
    /\ LET tuple_list == generate_tuple_list(i[c], FALSE)
       IN /\ calls' = [calls EXCEPT ![c] =
                 Append(@, Call("generate_tuple_list", <<i[c], FALSE>>,
                                tuple_list))]
          /\ lines' = [lines EXCEPT ![c] =
                 Append(@, pattern_line(i[c], tuple_list))]
    /\ i' = [i EXCEPT ![c] = @ + 1]
    /\ UNCHANGED <<argv, pc, n, macro_code, stdout, exitcode, frame>>

(* The loop is exhausted: "    };", "}", "", and return "\n".join(lines)   *)
generate_macro_return(c) ==
    /\ pc[c] = "single_loop"
    /\ ~loop_continues(i[c], n[c])
    /\ lines' = [lines EXCEPT ![c] = @ \o footer_lines]
    /\ macro_code' = [macro_code EXCEPT ![c] =
                         join(<<NL>>, lines[c] \o footer_lines)]
    /\ pc' = [pc EXCEPT ![c] = "print"]
    /\ UNCHANGED <<argv, n, i, stdout, exitcode, calls, frame>>

(* print(macro_code), and the script ends                                  *)
main_print(c) ==
    /\ pc[c] = "print"
    /\ stdout' = [stdout EXCEPT ![c] = print(@, macro_code[c])]
    /\ exitcode' = [exitcode EXCEPT ![c] = 0]
    /\ pc' = [pc EXCEPT ![c] = "done"]
    /\ UNCHANGED <<argv, n, i, lines, macro_code, calls, frame>>

----------------------------------------------------------------------------
(* The command lines explored.                                             *)

ArgChars == {"0", "1", "2", "3", "4", "5", "6", "7", "8", "9",
             "-", "+", " ", "_", "a", "\\"}

RECURSIVE TextsUpTo(_, _)
TextsUpTo(chars, len) ==
    IF len = 0 THEN {<<>>}
    ELSE LET shorter == TextsUpTo(chars, len - 1)
         IN shorter \cup {Append(s, ch) : s \in shorter, ch \in chars}

(* An argument that int() accepts is explored up to MaxN.                  *)
Args == {s \in TextsUpTo(ArgChars, MaxArgLen) : int_ok(s) => int(s) <= MaxN}

FewArgs == {<<"3">>, <<"a">>}

CommandLines ==
    {<<>>} \cup {<<a>> : a \in Args} \cup {<<a, b>> : a \in FewArgs, b \in FewArgs}

InitProcs(procs) ==
    /\ argv \in CommandLines
    /\ pc = [c \in procs |-> "main"]
    /\ n = [c \in procs |-> 0]
    /\ i = [c \in procs |-> 0]
    /\ lines = [c \in procs |-> <<>>]
    /\ macro_code = [c \in procs |-> <<>>]
    /\ stdout = [c \in procs |-> <<>>]
    /\ exitcode = [c \in procs |-> -1]
    /\ calls = [c \in procs |-> <<>>]
    /\ frame = <<>>

Init == InitProcs({1})

InitTwo == InitProcs({1, 2})

Next ==
    \/ \E c \in Procs : main_usage(c)
    \/ \E c \in Procs : main_argc_ok(c)
    \/ \E c \in Procs : main_parse_error(c)
    \/ \E c \in Procs : main_not_positive(c)
    \/ \E c \in Procs : main_parsed(c)
    \/ \E c \in Procs : generate_macro_begin(c)
    \/ \E c \in Procs : double_iteration(c)
    \/ \E c \in Procs : double_done(c)
    \/ \E c \in Procs : single_iteration(c)
    \/ \E c \in Procs : generate_macro_return(c)
    \/ \E c \in Procs : main_print(c)

Spec == Init /\ [][Next]_vars

SpecTwo == InitTwo /\ [][Next]_vars

----------------------------------------------------------------------------
(* name() applied to prefixes and positions drawn from bounded sets.       *)

PrefixChars == {"T", "U", "x", "1"}

InitName ==
    /\ argv = <<>>
    /\ pc = [c \in {1} |-> "call_name"]
    /\ n = [c \in {1} |-> 0]
    /\ i = [c \in {1} |-> 0]
    /\ lines = [c \in {1} |-> <<>>]
    /\ macro_code = [c \in {1} |-> <<>>]
    /\ stdout = [c \in {1} |-> <<>>]
    /\ exitcode = [c \in {1} |-> -1]
    /\ calls = [c \in {1} |-> <<>>]
    /\ \E p \in TextsUpTo(PrefixChars, MaxPrefixLen), k \in 0..MaxPos :
          frame = [prefix |-> p, pos |-> k, ret |-> <<>>]

name_call(c) ==
    /\ pc[c] = "call_name"
    /\ frame' = [frame EXCEPT !.ret = name(frame.prefix, frame.pos)]
    /\ pc' = [pc EXCEPT ![c] = "returned"]
    /\ UNCHANGED <<argv, n, i, lines, macro_code, stdout, exitcode, calls>>

NextName == \E c \in Procs : name_call(c)

SpecName == InitName /\ [][NextName]_vars

----------------------------------------------------------------------------
(* Reading text back: what the properties use to take the output apart.    *)

Contains(s, sub) ==
    \E k \in 0..(Len(s) - Len(sub)) : SubSeq(s, k + 1, k + Len(sub)) = sub

StartsWith(s, pre) == Len(s) >= Len(pre) /\ SubSeq(s, 1, Len(pre)) = pre

EndsWith(s, suf) ==
    Len(s) >= Len(suf) /\ SubSeq(s, Len(s) - Len(suf) + 1, Len(s)) = suf

Occurrences(s, sub) ==
    {k \in 1..(Len(s) - Len(sub) + 1) : SubSeq(s, k, k + Len(sub) - 1) = sub}

(* The pieces of s between the occurrences of sep, left to right.          *)
RECURSIVE SplitOn(_, _)
SplitOn(s, sep) ==
    LET at == Occurrences(s, sep)
    IN IF at = {} THEN <<s>>
       ELSE LET p == CHOOSE k \in at : \A m \in at : k <= m
            IN <<SubSeq(s, 1, p - 1)>>
               \o SplitOn(SubSeq(s, p + Len(sep), Len(s)), sep)

CommaSpace == <<",", " ">>

RECURSIVE DecimalValue(_)
DecimalValue(d) ==
    IF Len(d) = 0 THEN 0
    ELSE 10 * DecimalValue(SubSeq(d, 1, Len(d) - 1))
         + (CHOOSE v \in 0..9 : Digits[v + 1] = d[Len(d)])

(* d is the decimal numeral of k: digits only, no leading zero.            *)
IsDecimalOf(d, k) ==
    /\ Len(d) >= 1
    /\ \A x \in 1..Len(d) : \E v \in 0..9 : Digits[v + 1] = d[x]
    /\ Len(d) > 1 => d[1] # "0"
    /\ DecimalValue(d) = k

(* s is the k-th name (k = 1, 2, ...) of the family p.                     *)
IsKthName(s, p, k) ==
    IF k = 1 THEN s = p
    ELSE /\ StartsWith(s, p)
         /\ IsDecimalOf(SubSeq(s, Len(p) + 1, Len(s)), k)

TupleListCalls(c, double) ==
    {x \in 1..Len(calls[c]) :
        /\ calls[c][x].fn = "generate_tuple_list"
        /\ calls[c][x].args[2] = double}

Terminated(c) == pc[c] \in {"done", "exit"}

Generated(c) == pc[c] \in {"print", "done"}

(* The lines of the returned document, and those that carry a pattern.     *)
DocLines(c) == SplitOn(macro_code[c], <<NL>>)

IsPatternLine(l) == StartsWith(l, LineOpen) /\ EndsWith(l, LineClose)

PatternLines(c) == SelectSeq(DocLines(c), IsPatternLine)

(* A pattern line without its wrapping, and its two fields.                *)
Unwrapped(l) == SubSeq(l, Len(LineOpen) + 1, Len(l) - Len(LineClose))

ArityField(l) == SplitOn(lstrip(Unwrapped(l)), <<" ">>)[1]

PatternList(l) ==
    LET body == lstrip(Unwrapped(l))
    IN SubSeq(body, Len(ArityField(l)) + 2, Len(body))

IsPairedLine(l) == StartsWith(PatternList(l), <<"(">>)

----------------------------------------------------------------------------
(* C1: every non-paired list generate_tuple_list(n, double=False) returns, *)
(* n >= 1, is exactly n names joined by ", " with no trailing separator;   *)
(* the first name is the bare "T", the k-th (k = 2..n) is "T" followed by  *)
(* the decimal numeral of k; the n names are pairwise distinct.            *)
C1_SingleList ==
    \A c \in Procs : \A x \in TupleListCalls(c, FALSE) :
        LET arity == calls[c][x].args[1]
            names == SplitOn(calls[c][x].ret, CommaSpace)
        IN arity >= 1 =>
            /\ Len(names) = arity
            /\ names[1] = <<"T">>
            /\ \A k \in 2..arity : IsKthName(names[k], <<"T">>, k)
            /\ \A k \in 1..arity : ~Contains(names[k], <<",">>)
                                   /\ ~Contains(names[k], <<" ">>)
            /\ \A a, b \in 1..arity : a # b => names[a] # names[b]

(* A non-paired list of arity 10 has been built: it ends with "T10".       *)
C1_Witness ==
    \E c \in Procs : \E x \in TupleListCalls(c, FALSE) :
        /\ calls[c][x].args[1] = 10
        /\ EndsWith(calls[c][x].ret, <<",", " ", "T", "1", "0">>)

(* C2: every paired list generate_tuple_list(n, double=True) returns,      *)
(* n >= 1, is exactly n parenthesized pairs joined by ", "; the k-th pair  *)
(* is "(" + k-th T name + " " + k-th U name + ")", both names under the    *)
(* same naming rule; arity 2 gives "(T U), (T2 U2)".                       *)
C2_PairedList ==
    \A c \in Procs : \A x \in TupleListCalls(c, TRUE) :
        LET arity == calls[c][x].args[1]
            pairs == SplitOn(calls[c][x].ret, CommaSpace)
        IN arity >= 1 =>
            /\ Len(pairs) = arity
            /\ \A k \in 1..arity :
                  LET pair == pairs[k]
                      inner == SplitOn(SubSeq(pair, 2, Len(pair) - 1), <<" ">>)
                  IN /\ Len(pair) >= 5
                     /\ pair[1] = "("
                     /\ pair[Len(pair)] = ")"
                     /\ Len(inner) = 2
                     /\ IsKthName(inner[1], <<"T">>, k)
                     /\ IsKthName(inner[2], <<"U">>, k)
            /\ arity = 2 =>
                  calls[c][x].ret = <<"(", "T", " ", "U", ")", ",", " ",
                                      "(", "T", "2", " ", "U", "2", ")">>

(* A paired list of arity 11 has been built: it ends with "(T11 U11)".     *)
C2_Witness ==
    \E c \in Procs : \E x \in TupleListCalls(c, TRUE) :
        /\ calls[c][x].args[1] = 11
        /\ EndsWith(calls[c][x].ret,
                    <<"(", "T", "1", "1", " ", "U", "1", "1", ")">>)

(* C3: the document generate_macro(N) returns holds exactly N paired       *)
(* pattern lines followed by exactly N non-paired pattern lines; in each   *)
(* block the k-th line has arity k, in its number and in its list.         *)
C3_PatternLineBlocks ==
    \A c \in Procs : Generated(c) =>
        LET pl == PatternLines(c)
        IN /\ Len(pl) = 2 * n[c]
           /\ \A k \in 1..n[c] :
                 /\ IsPairedLine(pl[k])
                 /\ IsDecimalOf(ArityField(pl[k]), k)
                 /\ Len(SplitOn(PatternList(pl[k]), CommaSpace)) = k
                 /\ ~IsPairedLine(pl[n[c] + k])
                 /\ IsDecimalOf(ArityField(pl[n[c] + k]), k)
                 /\ Len(SplitOn(PatternList(pl[n[c] + k]), CommaSpace)) = k

(* A document for N = 3 has been returned.                                 *)
C3_Witness ==
    \E c \in Procs : Generated(c) /\ n[c] = 3 /\ Len(PatternLines(c)) = 6

(* The single argument, when there is exactly one, and its two ways of     *)
(* being rejected.                                                         *)
OneArgument == Len(argv) = 1

Unparsable == OneArgument /\ ~int_ok(argv[1])

NonPositive == OneArgument /\ int_ok(argv[1]) /\ int(argv[1]) <= 0

PositiveInteger == OneArgument /\ int_ok(argv[1]) /\ int(argv[1]) > 0

FirstLine(text) == SplitOn(text, <<NL>>)[1]

(* C4 as stated: whenever the single argument fails to parse as an integer *)
(* or parses to a non-positive integer, main exits with code 1 and the     *)
(* error message it prints includes the offending argument value.          *)
C4_MessageIncludesValue ==
    \A c \in Procs : (Terminated(c) /\ (Unparsable \/ NonPositive)) =>
        /\ exitcode[c] = 1
        /\ Contains(stdout[c], argv[1])

(* C4 as amended: in both cases main exits with code 1. For an argument    *)
(* that int() cannot parse, the first line printed is "Error: invalid      *)
(* literal for int() with base 10: " followed by the repr of the argument, *)
(* which holds the argument itself between quotes when it has no           *)
(* backslash. For an argument that parses to zero or less, the first line  *)
(* printed is "Error: N must be positive" and the output does not hold the *)
(* argument.                                                               *)
C4_ErrorMessages ==
    \A c \in Procs : Terminated(c) =>
        /\ Unparsable =>
              /\ exitcode[c] = 1
              /\ StartsWith(FirstLine(stdout[c]),
                            ErrorPrefix \o InvalidLiteral \o <<"'">>)
              /\ EndsWith(FirstLine(stdout[c]), <<"'">>)
              /\ Len(FirstLine(stdout[c])) >=
                    Len(ErrorPrefix) + Len(InvalidLiteral) + 2 + Len(argv[1])
              /\ ~Contains(argv[1], <<"\\">>) =>
                    FirstLine(stdout[c]) =
                        ErrorPrefix \o InvalidLiteral
                        \o <<"'">> \o argv[1] \o <<"'">>
        /\ NonPositive =>
              /\ exitcode[c] = 1
              /\ FirstLine(stdout[c]) = ErrorPrefix \o MustBePositive
              /\ ~Contains(stdout[c], argv[1])

(* A run on the argument "-1" has ended: exit code 1, the message without *)
(* the value.                                                              *)
C4_Witness ==
    \E c \in Procs :
        /\ Terminated(c)
        /\ NonPositive
        /\ argv[1] = <<"-", "1">>
        /\ exitcode[c] = 1
        /\ FirstLine(stdout[c]) = ErrorPrefix \o MustBePositive

(* C5: main calls generate_macro and prints the document (exit code 0) if  *)
(* and only if exactly one argument is given and it parses to a positive   *)
(* integer; in every other case the process ends with exit code 1 before   *)
(* generate_macro is called and no document text is printed.               *)
C5_DocumentIffValid ==
    \A c \in Procs :
        LET called == \E x \in 1..Len(calls[c]) :
                          calls[c][x].fn = "generate_macro"
        IN /\ called => PositiveInteger
           /\ Terminated(c) =>
                 IF PositiveInteger
                 THEN /\ exitcode[c] = 0
                      /\ called
                      /\ Len(macro_code[c]) > 0
                      /\ stdout[c] = macro_code[c] \o <<NL>>
                 ELSE /\ exitcode[c] = 1
                      /\ ~called
                      /\ calls[c] = <<>>
                      /\ lines[c] = <<>>
                      /\ macro_code[c] = <<>>
                      /\ ~Contains(stdout[c], MacroRulesLine)
                      /\ ~Contains(stdout[c], LineOpen)

(* A run on the single argument "2" has ended: exit code 0, the document  *)
(* on standard output.                                                     *)
C5_Witness ==
    \E c \in Procs :
        /\ Terminated(c)
        /\ argv = <<<<"2">>>>
        /\ exitcode[c] = 0
        /\ Contains(stdout[c], MacroRulesLine)

(* C6: in every pattern line of the document, of both blocks, the arity is *)
(* a width-2 right-aligned, space-padded decimal: a one-digit arity is a   *)
(* space and the digit, a two-digit arity has no padding; one space and    *)
(* the pattern list follow.                                                *)
C6_ArityWidthTwo ==
    \A c \in Procs : Generated(c) =>
        LET pl == PatternLines(c)
        IN \A x \in 1..Len(pl) :
              LET k == IF x <= n[c] THEN x ELSE x - n[c]
                  field == SubSeq(pl[x], Len(LineOpen) + 1, Len(LineOpen) + 2)
                  rest == SubSeq(pl[x], Len(LineOpen) + 3, Len(pl[x]))
              IN /\ k < 10 => field = <<" ", Digits[k + 1]>>
                 /\ (k >= 10 /\ k < 100) =>
                       field = <<Digits[(k \div 10) + 1], Digits[(k % 10) + 1]>>
                 /\ k < 100 =>
                       /\ rest[1] = " "
                       /\ rest[2] \in {"(", "T"}
                       /\ Tail(rest) =
                             generate_tuple_list(k, x <= n[c]) \o LineClose

(* A document with the arities 5 and 12 has been returned; its lines show  *)
(* " 5" and "12".                                                          *)
C6_Witness ==
    \E c \in Procs :
        /\ Generated(c)
        /\ n[c] >= 12
        /\ StartsWith(PatternLines(c)[5], LineOpen \o <<" ", "5", " ", "(">>)
        /\ StartsWith(PatternLines(c)[n[c] + 12],
                      LineOpen \o <<"1", "2", " ", "T">>)

(* C7: two runs of the program side by side on the same command line       *)
(* return the same document and print the same text.                       *)
C7_SameOutput ==
    \A c, d \in Procs :
        /\ (Generated(c) /\ Generated(d)) => macro_code[c] = macro_code[d]
        /\ (Terminated(c) /\ Terminated(d)) =>
              /\ stdout[c] = stdout[d]
              /\ exitcode[c] = exitcode[d]

(* Two runs, both for N = 3, have both printed their document.             *)
C7_Witness ==
    /\ Cardinality(Procs) = 2
    /\ \A c \in Procs : pc[c] = "done" /\ n[c] = 3 /\ Len(macro_code[c]) > 0

(* C8: for every prefix p and every position i >= 0, name(p, i) is p       *)
(* unchanged when i = 0 and otherwise p followed by the decimal numeral of *)
(* i + 1; position 0 never yields p followed by "1".                       *)
C8_NameRule ==
    \A c \in Procs : pc[c] = "returned" =>
        /\ frame.pos = 0 =>
              /\ frame.ret = frame.prefix
              /\ frame.ret # frame.prefix \o <<"1">>
        /\ frame.pos > 0 =>
              /\ StartsWith(frame.ret, frame.prefix)
              /\ IsDecimalOf(SubSeq(frame.ret, Len(frame.prefix) + 1,
                                    Len(frame.ret)),
                             frame.pos + 1)

(* name("x1", 9) has returned "x110".                                      *)
C8_Witness ==
    \E c \in Procs :
        /\ pc[c] = "returned"
        /\ frame.prefix = <<"x", "1">>
        /\ frame.pos = 9
        /\ frame.ret = <<"x", "1", "1", "0">>

(* C9: the lines of the document generate_macro(N) returns are the         *)
(* doc-comment line, the format-directive line, the two opening lines of   *)
(* the paired case, N paired lines, the closing line of the paired case    *)
(* and an empty line, the opening line of the non-paired case, N           *)
(* non-paired lines, the closing lines and a final empty line; the string  *)
(* is these lines joined by newlines, so it ends with exactly one newline. *)
C9_Frame ==
    \A c \in Procs : Generated(c) =>
        LET doc == macro_code[c]
            dl == DocLines(c)
            N == n[c]
        IN /\ dl = lines[c]
           /\ Len(dl) = 2 * N + 10
           /\ Cardinality(Occurrences(doc, <<NL>>)) = Len(dl) - 1
           /\ dl[1] = DocCommentLine
           /\ dl[2] = RustfmtSkipLine
           /\ dl[3] = MacroRulesLine
           /\ dl[4] = DoubleOpenLine
           /\ \A k \in 1..N : IsPatternLine(dl[4 + k]) /\ IsPairedLine(dl[4 + k])
           /\ dl[N + 5] = ArmCloseLine
           /\ dl[N + 6] = <<>>
           /\ dl[N + 7] = SingleOpenLine
           /\ \A k \in 1..N :
                 IsPatternLine(dl[N + 7 + k]) /\ ~IsPairedLine(dl[N + 7 + k])
           /\ dl[2 * N + 8] = ArmCloseLine
           /\ dl[2 * N + 9] = MacroCloseLine
           /\ dl[2 * N + 10] = <<>>
           /\ doc[Len(doc)] = NL
           /\ doc[Len(doc) - 1] # NL

(* A document for N = 2 has been returned: 14 lines, the last one empty.   *)
C9_Witness ==
    \E c \in Procs :
        /\ Generated(c)
        /\ n[c] = 2
        /\ Len(DocLines(c)) = 14
        /\ EndsWith(macro_code[c], <<"}", NL>>)

(* C10: generate_tuple_list is only ever called with an arity in 1..N, N   *)
(* the validated positive maximum, and once the document is generated it   *)
(* has been called exactly once per mode and arity in 1..N.                *)
C10_ArityInRange ==
    \A c \in Procs :
        /\ \A double \in BOOLEAN : \A x \in TupleListCalls(c, double) :
              /\ PositiveInteger
              /\ n[c] = int(argv[1])
              /\ calls[c][x].args[1] >= 1
              /\ calls[c][x].args[1] <= n[c]
              /\ \A y \in TupleListCalls(c, double) :
                    calls[c][y].args[1] = calls[c][x].args[1] => y = x
        /\ Terminated(c) =>
              \A double \in BOOLEAN :
                 IF PositiveInteger
                 THEN \A k \in 1..n[c] :
                         Cardinality({x \in TupleListCalls(c, double) :
                                         calls[c][x].args[1] = k}) = 1
                 ELSE TupleListCalls(c, double) = {}

(* A run for N = 4 has ended with its eight calls made.                    *)
C10_Witness ==
    \E c \in Procs :
        /\ Terminated(c)
        /\ n[c] = 4
        /\ Cardinality(TupleListCalls(c, TRUE)) = 4
        /\ Cardinality(TupleListCalls(c, FALSE)) = 4

====
